---- MODULE Spec2Model ----
(***************************************************************************)
(* Model of resources/lib/KodiMonitor.py: the playback monitor that tracks *)
(* addon-initiated playbacks and writes bookmarks / watched state to the   *)
(* Kodi library.  Every handler (Player.OnPlay, Player.OnStop, the         *)
(* periodic tick) is one atomic action; the answers of the JSON-RPC        *)
(* service, the settings and the window properties written by the          *)
(* initiating side are inputs drawn from small sets.                       *)
(*                                                                         *)
(* Python values are encoded as follows:                                   *)
(*   None / a value      <<>> / <<v>>             (None, Some)             *)
(*   str                 a sequence of one-character strings               *)
(*   dict                a record; a missing key is a missing field        *)
(*   raise               the field "raised" of a result names the          *)
(*                       exception, "" when the call returned normally     *)
(***************************************************************************)
EXTENDS Integers, Sequences, FiniteSets, TLC

VARIABLES
    video_info,           \* self.video_info: None or Some([dbtype, dbid, playcount])
    progress,             \* self.progress
    elapsed,              \* self.elapsed
    timeline_markers,     \* self.timeline_markers
    prop_netflix_play,    \* window property PROP_NETFLIX_PLAY (ownership flag)
    prop_timeline_markers,\* window property PROP_TIMELINE_MARKERS (pickled blob)
    library,              \* remote library: item -> [playcount, resume]
    playbacks,            \* number of playbacks the addon has initiated
    last,                 \* observation: what the most recent handler call did
    session,              \* observation: counters since the latest start that set "tracking"
    fn_call               \* a single call of one of the module's functions: input and result

vars == <<video_info, progress, elapsed, timeline_markers, prop_netflix_play,
          prop_timeline_markers, library, playbacks, last, session, fn_call>>

monitor == <<video_info, progress, elapsed, timeline_markers>>

(***************************************************************************)
(* Bounds of the model.                                                    *)
(***************************************************************************)
MaxPlaybacks == 1
MaxNoneAnswers == 4
MaxCount == 3

(***************************************************************************)
(* Python values.                                                          *)
(***************************************************************************)
None == <<>>
Some(v) == <<v>>

Min(a, b) == IF a < b THEN a ELSE b

DictGet(d, k) == IF k \in DOMAIN d THEN Some(d[k]) ELSE None

\* truth value of an optional string: None and '' are false
Truthy(o) == o # None /\ o[1] # <<>>

\* sub in s, for two strings
Contains(sub, s) ==
    \E i \in 0..(Len(s) - Len(sub)) : SubSeq(s, i + 1, i + Len(sub)) = sub

Digit(n) == <<"0", "1", "2", "3", "4", "5", "6", "7", "8", "9">>[n + 1]

RECURSIVE Decimal(_)
\* '%d' % n, for n >= 0
Decimal(n) == IF n < 10 THEN <<Digit(n)>> ELSE Decimal(n \div 10) \o <<Digit(n % 10)>>

\* '%02d' % n, for n >= 0
Fmt02d(n) == IF n < 10 THEN <<"0", Digit(n)>> ELSE Decimal(n)

(***************************************************************************)
(* Window property values and the strings of the library.                  *)
(***************************************************************************)
PROP_PLAYBACK_INIT == "init"
PROP_PLAYBACK_TRACKING == "tracking"

Flags == {"", PROP_PLAYBACK_INIT, PROP_PLAYBACK_TRACKING, "stopped", "notnetflix"}

MyShow == <<"M", "y", " ", "S", "h", "o", "w">>
MyShowS02E05 == MyShow \o <<" ", "S", "0", "2", "E", "0", "5">>
Heat == <<"H", "e", "a", "t">>
Heat1995 == Heat \o <<" ", "(", "1", "9", "9", "5", ")">>

\* the library's listings, in the order the remote service returns them
LibraryEpisodes ==
    << [episodeid |-> 1, tvshowid |-> 10, showtitle |-> MyShow, season |-> 2, episode |-> 5] >>

LibraryMovies ==
    << [movieid |-> 1, label |-> Heat, year |-> 1995] >>

Items == {<<"episode", 1>>, <<"movie", 1>>}

Key(info) == <<info.dbtype, info.dbid>>

(***************************************************************************)
(* The JSON-RPC service.  A response is a dict holding either the key      *)
(* 'error' or the key 'result'.                                            *)
(***************************************************************************)
ErrorResponse == [error |-> [code |-> -32100, message |-> "failed"]]
Result(r) == [result |-> r]

Returned(v) == [raised |-> "", val |-> v]
Raised(e) == [raised |-> e, val |-> None]

\* _json_rpc: raises IOError on an error envelope, else returns response['result']
_json_rpc(response) ==
    IF "error" \in DOMAIN response THEN Raised("IOError") ELSE Returned(response.result)

RECURSIVE FirstVideoPlayer(_)
FirstVideoPlayer(players) ==
    IF players = <<>> THEN None
    ELSE IF Head(players).type = "video" THEN Some(Head(players).playerid)
    ELSE FirstVideoPlayer(Tail(players))

\* _get_active_video_player, given the response to Player.GetActivePlayers
_get_active_video_player(response) ==
    LET r == _json_rpc(response)
    IN  IF r.raised # "" THEN r ELSE Returned(FirstVideoPlayer(r.val))

RECURSIVE RetryFrom(_, _, _)
\* the loop of _retry from iteration i on; answers[k] is the response the
\* service gives to the k-th call of func
RetryFrom(answers, i, max_tries) ==
    IF i >= max_tries THEN [raised |-> "", val |-> None, calls |-> i - 1]
    ELSE LET r == _get_active_video_player(answers[i])
         IN  IF r.raised # "" THEN [raised |-> r.raised, val |-> None, calls |-> i]
             ELSE IF r.val # None THEN [raised |-> "", val |-> r.val, calls |-> i]
             ELSE RetryFrom(answers, i + 1, max_tries)

\* _retry(_get_active_video_player, max_tries): for _ in range(1, max_tries)
_retry(answers, max_tries) == RetryFrom(answers, 1, max_tries)

\* number of tries _on_playback_started passes to _retry
MAX_TRIES == 5

(***************************************************************************)
(* Item resolution.                                                        *)
(***************************************************************************)
\* item.get(itemkey), or the default: the fallback is never looked at
_get_safe_with_fallback_item_only(item, fallback, itemkey, fallbackkey, default) ==
    LET a == DictGet(item, itemkey)
    IN  IF Truthy(a) THEN a ELSE Some(default)

\* item.get(itemkey) or fallback.get(fallbackkey), default on AttributeError;
\* item is a dict, fallback None or Some(dict); the result is None or Some(str)
_get_safe_with_fallback(item, fallback, itemkey, fallbackkey, default) ==
    LET a == DictGet(item, itemkey)
    IN  IF Truthy(a) THEN a
        ELSE IF fallback = None THEN Some(default)
        ELSE DictGet(fallback[1], fallbackkey)

\* x in title: TypeError when title is None
InTitle(x, title) ==
    IF title = None THEN Raised("TypeError") ELSE Returned(Contains(x, title[1]))

_match_movie(item, movie, fallback_data) ==
    LET title == _get_safe_with_fallback(item, fallback_data, "title", "title", <<>>)
        movie_meta == movie.label \o <<" ", "(">> \o Decimal(movie.year) \o <<")">>
    IN  IF title # None /\ movie_meta = title[1] THEN Returned(TRUE)
        ELSE InTitle(movie.label, title)

_match_episode_explicitly(item, candidate) ==
    LET matches_show == \/ DictGet(item, "tvshowid") = Some(candidate.tvshowid)
                        \/ DictGet(item, "showtitle") = Some(candidate.showtitle)
        matches_season == DictGet(item, "season") = Some(candidate.season)
        matches_episode == DictGet(item, "episode") = Some(candidate.episode)
    IN  matches_show /\ matches_season /\ matches_episode

_match_episode_by_title(title, candidate) ==
    LET episode_meta == <<"S">> \o Fmt02d(candidate.season) \o <<"E">> \o Fmt02d(candidate.episode)
        a == InTitle(candidate.showtitle, title)
    IN  IF a.raised # "" \/ ~a.val THEN a ELSE InTitle(episode_meta, title)

_match_episode(item, candidate, item_fb) ==
    LET title == _get_safe_with_fallback(item, item_fb, "label", "title", <<>>)
    IN  IF _match_episode_explicitly(item, candidate) THEN Returned(TRUE)
        ELSE _match_episode_by_title(title, candidate)

MatchFn(mediatype, item, candidate, item_fb) ==
    IF mediatype = "episode" THEN _match_episode(item, candidate, item_fb)
    ELSE _match_movie(item, candidate, item_fb)

CandidateId(mediatype, candidate) ==
    IF mediatype = "episode" THEN candidate.episodeid ELSE candidate.movieid

RECURSIVE _first_match_or_none(_, _, _, _)
\* first candidate the match function accepts, as a video_info record; an
\* exception of the match function ends the search
_first_match_or_none(mediatype, item, candidates, item_fb) ==
    IF candidates = <<>> THEN Returned(None)
    ELSE LET candidate == Head(candidates)
             m == MatchFn(mediatype, item, candidate, item_fb)
         IN  IF m.raised # "" THEN Raised(m.raised)
             ELSE IF m.val THEN Returned(Some([dbtype |-> mediatype,
                                               dbid |-> CandidateId(mediatype, candidate),
                                               playcount |-> candidate.playcount]))
             ELSE _first_match_or_none(mediatype, item, Tail(candidates), item_fb)

\* _guess_episode, given the response to VideoLibrary.GetEpisodes
_guess_episode(item, item_fb, response) ==
    LET resp == _json_rpc(response)
    IN  IF resp.raised # "" THEN resp
        ELSE _first_match_or_none("episode", item,
                 IF "episodes" \in DOMAIN resp.val THEN resp.val.episodes ELSE <<>>, item_fb)

\* the filter parameter of _guess_movie: the item's year when it has one
MovieFilter(item) == DictGet(item, "year")

\* _guess_movie, given the response to VideoLibrary.GetMovies
_guess_movie(item, item_fb, response) ==
    LET resp == _json_rpc(response)
    IN  IF resp.raised # "" THEN resp
        ELSE _first_match_or_none("movie", item,
                 IF "movies" \in DOMAIN resp.val THEN resp.val.movies ELSE <<>>, item_fb)

\* _get_video_info, given the responses to Player.GetItem and GetEpisodes, and the
\* response to GetMovies for each filter parameter; asked lists the methods called
_get_video_info(fallback_data, rGetItem, rGetEpisodes, rGetMovies) ==
    LET resp == _json_rpc(rGetItem)
        Asked(r, methods) == [raised |-> r.raised, val |-> r.val, asked |-> methods]
    IN  IF resp.raised # "" THEN Asked(resp, <<"Player.GetItem">>)
        ELSE LET info == IF "item" \in DOMAIN resp.val THEN resp.val.item ELSE <<>>
             IN  IF "type" \in DOMAIN info /\ "id" \in DOMAIN info
                 THEN Asked(Returned(Some([dbtype |-> info.type, dbid |-> info.id,
                                           playcount |-> IF "playcount" \in DOMAIN info
                                                         THEN info.playcount ELSE 0])),
                            <<"Player.GetItem">>)
                 ELSE LET e == _guess_episode(info, fallback_data, rGetEpisodes)
                      IN  IF e.raised # "" \/ e.val # None
                          THEN Asked(e, <<"Player.GetItem", "VideoLibrary.GetEpisodes">>)
                          ELSE Asked(_guess_movie(info, fallback_data,
                                                  rGetMovies[MovieFilter(info)]),
                                     <<"Player.GetItem", "VideoLibrary.GetEpisodes",
                                       "VideoLibrary.GetMovies">>)

(***************************************************************************)
(* Timeline markers.  The window property holds '' (nothing stored), bytes *)
(* that do not unpickle, or the pickle of a dict.                          *)
(***************************************************************************)
EmptyBlob == [kind |-> "empty"]
GarbageBlob == [kind |-> "garbage"]
Pickle(obj) == [kind |-> "pickle", obj |-> obj]

\* pickle.loads
pickle_loads(blob) ==
    IF blob.kind = "pickle" THEN Returned(blob.obj) ELSE Raised("UnpicklingError")

\* d with d[k] = v
DictSet(d, k, v) == (k :> v) @@ d

\* del d[k]; the empty dict is always written <<>>
DictDel(d, k) ==
    IF (DOMAIN d) \ {k} = {} THEN <<>> ELSE [x \in (DOMAIN d) \ {k} |-> d[x]]

\* int(ms / 1000)
MsToSeconds(ms) == ms \div 1000

\* one of the two marker blocks of _grab_timeline_markers (section = 'credit'
\* or 'recap'), applied to the markers tm built so far
GrabSection(tm, obj, section) ==
    IF "credit_markers" \notin DOMAIN obj THEN [raised |-> "KeyError", tm |-> tm]
    ELSE IF section \notin DOMAIN obj.credit_markers THEN [raised |-> "KeyError", tm |-> tm]
    ELSE LET m == obj.credit_markers[section]
         IN  IF "start" \notin DOMAIN m THEN [raised |-> "KeyError", tm |-> tm]
             ELSE IF m.start = None THEN [raised |-> "", tm |-> tm]
             ELSE IF "end" \notin DOMAIN m THEN [raised |-> "KeyError", tm |-> tm]
             ELSE IF m.end = None THEN [raised |-> "TypeError", tm |-> tm]
             ELSE [raised |-> "",
                   tm |-> DictSet(tm, "credit_markers",
                              DictSet(tm.credit_markers, section,
                                      [start |-> MsToSeconds(m.start[1]),
                                       end |-> MsToSeconds(m.end[1])]))]

\* one of the two offset blocks of _grab_timeline_markers
GrabOffset(tm, obj, key) ==
    IF key \notin DOMAIN obj THEN [raised |-> "KeyError", tm |-> tm]
    ELSE IF obj[key] = None THEN [raised |-> "", tm |-> tm]
    ELSE [raised |-> "", tm |-> DictSet(tm, key, obj[key][1])]

\* _grab_timeline_markers: the value left in self.timeline_markers, and the
\* exception that escapes, if any
_grab_timeline_markers(blob) ==
    LET tm0 == [credit_markers |-> <<>>]
        loaded == pickle_loads(blob)
    IN  IF loaded.raised # "" THEN [raised |-> "", tm |-> tm0]
        ELSE LET obj == loaded.val
                 s1 == GrabOffset(tm0, obj, "end_credits_offset")
                 s2 == GrabOffset(s1.tm, obj, "watched_to_end_offset")
                 s3 == GrabSection(s2.tm, obj, "credit")
                 s4 == GrabSection(s3.tm, obj, "recap")
             IN  IF s1.raised # "" THEN s1
                 ELSE IF s2.raised # "" THEN s2
                 ELSE IF s3.raised # "" THEN s3
                 ELSE s4

(***************************************************************************)
(* Window properties.                                                      *)
(***************************************************************************)
\* a status test that holds whatever the window property says
_is_playback_status_any(status) == TRUE

_is_playback_status(status) == prop_netflix_play = status

\* a start that does not look at the window property
is_initialized_playback_unchecked == TRUE

is_initialized_playback == _is_playback_status(PROP_PLAYBACK_INIT)

\* a tick and a stop that do not look at the window property
is_netflix_playback_unchecked == TRUE

is_netflix_playback == _is_playback_status(PROP_PLAYBACK_TRACKING)

(***************************************************************************)
(* Library writes.                                                         *)
(***************************************************************************)
SetDetails == "VideoLibrary.Set<MediaType>Details"

Capitalize(dbtype) == IF dbtype = "episode" THEN "Episode"
                      ELSE IF dbtype = "movie" THEN "Movie" ELSE dbtype

\* the request _update_item_details sends for the item info
SetDetailsRequest(info, properties) ==
    [method |-> <<"VideoLibrary.Set", Capitalize(info.dbtype), "Details">>,
     item |-> Key(info),
     properties |-> properties]

\* the library after the service has carried out a Set<MediaType>Details request
ApplySetDetails(lib, request) ==
    IF request.item \notin DOMAIN lib THEN lib
    ELSE [lib EXCEPT ![request.item] =
            [playcount |-> IF "playcount" \in DOMAIN request.properties
                           THEN request.properties.playcount ELSE @.playcount,
             resume |-> IF "resume" \in DOMAIN request.properties
                        THEN request.properties.resume.position ELSE @.resume]]

\* _update_item_details: the requests sent (none when self.video_info is None:
\* subscripting it raises TypeError), the exception raised (IOError when the
\* response is an error envelope) and the library afterwards
_update_item_details(vi, properties, response, lib) ==
    IF vi = None
    THEN [raised |-> "TypeError", failed |-> "video_info", writes |-> <<>>, lib |-> lib]
    ELSE LET request == SetDetailsRequest(vi[1], properties)
             r == _json_rpc(response)
         IN  [raised |-> r.raised,
              failed |-> IF r.raised = "" THEN "" ELSE SetDetails,
              writes |-> <<[request |-> request, ok |-> r.raised = ""]>>,
              lib |-> IF r.raised = "" THEN ApplySetDetails(lib, request) ELSE lib]

(***************************************************************************)
(* Skipping.                                                               *)
(***************************************************************************)
Call(op, args) == [op |-> op, args |-> args]

\* '{:02d}:{:02d}'.format(minutes, seconds), the time of the AlarmClock builtin
AlarmTime(minutes, seconds) == Fmt02d(minutes) \o <<":">> \o Fmt02d(seconds)

\* _skip that seeks without ever pausing
_skip_never_pauses(section, tm, settings) ==
    LET m == tm.credit_markers[section]
    IN  IF settings.auto_skip_credits
        THEN <<Call("notification", <<>>), Call("seekTime", <<m.end>>)>>
        ELSE LET dialog_duration == m.end - m.start
                 seconds == dialog_duration % 60
                 minutes == (dialog_duration - seconds) \div 60
             IN  <<Call("AlarmClock", <<AlarmTime(minutes, seconds)>>),
                   Call("doModal", <<m.end>>)>>

\* _skip: the calls made on the player and the user interface, in order
_skip(section, tm, settings) ==
    LET m == tm.credit_markers[section]
    IN  IF settings.auto_skip_credits
        THEN <<Call("notification", <<>>)>> \o
             (IF settings.skip_enabled_no_pause
              THEN <<Call("seekTime", <<m.end>>)>>
              ELSE <<Call("pause", <<>>), Call("seekTime", <<m.end>>), Call("pause", <<>>)>>)
        ELSE LET dialog_duration == m.end - m.start
                 seconds == dialog_duration % 60
                 minutes == (dialog_duration - seconds) \div 60
             IN  <<Call("AlarmClock", <<AlarmTime(minutes, seconds)>>),
                   Call("doModal", <<m.end>>)>>

(***************************************************************************)
(* The handlers.  Each is computed from the current state and the answers  *)
(* of the service, and yields the state the handler leaves behind together *)
(* with what it did: the exception it let escape (raised), the call that   *)
(* failed (failed: a method answered with an error envelope, or the        *)
(* function an exception came from), the methods it called, the            *)
(* Set<MediaType>Details requests it sent and the skips it triggered.      *)
(***************************************************************************)
Outcome(vi, pr, el, tm, flag, blob, lib, raised, failed, asked, writes, skips) ==
    [video_info |-> vi, progress |-> pr, elapsed |-> el, timeline_markers |-> tm,
     prop_netflix_play |-> flag, prop_timeline_markers |-> blob, library |-> lib,
     raised |-> raised, failed |-> failed, asked |-> asked, writes |-> writes,
     skips |-> skips]

\* the handler ended (returned or raised) without touching anything
Untouched(raised, failed, asked) ==
    Outcome(video_info, progress, elapsed, timeline_markers, prop_netflix_play,
            prop_timeline_markers, library, raised, failed, asked, <<>>, <<>>)

\* progress['time'] in seconds
ElapsedOf(time) == time.hours * 3600 + time.minutes * 60 + time.seconds

\* the test of on_playback_tick on one section's markers
InSection(section_markers, el) ==
    el >= section_markers.start /\ el < section_markers.end

\* the loop body without `del self.timeline_markers['credit_markers'][section]`
SkipStep_keeps_section(acc, section, el, settings) ==
    LET cm == acc.tm.credit_markers
    IN  IF section \in DOMAIN cm /\ InSection(cm[section], el)
        THEN [tm |-> acc.tm,
              skips |-> Append(acc.skips, [section |-> section,
                                           calls |-> _skip(section, acc.tm, settings)])]
        ELSE acc

\* the body of the loop `for section in ['recap', 'credit']` of on_playback_tick
SkipStep(acc, section, el, settings) ==
    LET cm == acc.tm.credit_markers
    IN  IF section \in DOMAIN cm /\ InSection(cm[section], el)
        THEN [tm |-> DictSet(acc.tm, "credit_markers", DictDel(cm, section)),
              skips |-> Append(acc.skips, [section |-> section,
                                           calls |-> _skip(section, acc.tm, settings)])]
        ELSE acc

\* handlers that take every item for missing
ItemIdentified_never == FALSE

\* the handlers without their `self.video_info` test
ItemIdentified_untested == TRUE

\* `if self.video_info`: None is false, a video_info dict (never empty) is true
ItemIdentified == video_info # None

\* a failed query that resets the position instead of keeping it
TickQueryFailed_resets(asked) ==
    Outcome(video_info, 0, 0, timeline_markers, prop_netflix_play,
            prop_timeline_markers, library, "", "Player.GetProperties", asked, <<>>, <<>>)

\* `except IOError: return` around the Player.GetProperties call of the tick
TickQueryFailed(asked) == Untouched("", "Player.GetProperties", asked)

on_playback_tick(rPlayers, rProps, settings, rSet) ==
    IF ~is_netflix_playback THEN Untouched("", "", <<>>)
    ELSE
    LET player == _get_active_video_player(rPlayers)
    IN  IF player.raised # ""
        THEN Untouched(player.raised, "Player.GetActivePlayers", <<"Player.GetActivePlayers">>)
        ELSE
        LET props == _json_rpc(rProps)
            asked == <<"Player.GetActivePlayers", "Player.GetProperties">>
        IN  IF props.raised # "" THEN TickQueryFailed(asked)
            ELSE
            LET el == ElapsedOf(props.val.time)
                pr == props.val.percentage
                start == [tm |-> timeline_markers, skips |-> <<>>]
                nokey == settings.skip_credits /\ "credit_markers" \notin DOMAIN timeline_markers
                looped == IF settings.skip_credits /\ ~nokey
                          THEN SkipStep(SkipStep(start, "recap", el, settings),
                                        "credit", el, settings)
                          ELSE start
            IN  IF nokey
                THEN Outcome(video_info, pr, el, timeline_markers, prop_netflix_play,
                             prop_timeline_markers, library, "KeyError", "credit_markers",
                             asked, <<>>, <<>>)
                ELSE IF ~ItemIdentified
                THEN Outcome(video_info, pr, el, looped.tm, prop_netflix_play,
                             prop_timeline_markers, library, "", "", asked, <<>>,
                             looped.skips)
                ELSE LET u == _update_item_details(video_info,
                                  [resume |-> [position |-> el]], rSet, library)
                     IN  Outcome(video_info, pr, el, looped.tm, prop_netflix_play,
                                 prop_timeline_markers, u.lib, u.raised, u.failed,
                                 asked \o [k \in 1..Len(u.writes) |-> SetDetails],
                                 u.writes, looped.skips)

_on_playback_started(item, answers, rGetItem, rGetEpisodes, rGetMovies) ==
    LET player_id == _retry(answers, MAX_TRIES)
        polled == [k \in 1..player_id.calls |-> "Player.GetActivePlayers"]
    IN  IF player_id.raised # ""
        THEN Untouched(player_id.raised, "Player.GetActivePlayers", polled)
        ELSE IF player_id.val # None /\ is_initialized_playback
        THEN LET info == _get_video_info(item, rGetItem, rGetEpisodes, rGetMovies)
                 grab == _grab_timeline_markers(prop_timeline_markers)
             IN  IF info.raised # ""
                 THEN Untouched(info.raised,
                                IF info.raised = "IOError" THEN info.asked[Len(info.asked)]
                                ELSE "_get_video_info",
                                polled \o info.asked)
                 ELSE Outcome(info.val, 0, 0, grab.tm,
                              IF grab.raised = "" THEN PROP_PLAYBACK_TRACKING
                              ELSE prop_netflix_play,
                              prop_timeline_markers, library, grab.raised,
                              IF grab.raised = "" THEN "" ELSE "_grab_timeline_markers",
                              polled \o info.asked, <<>>, <<>>)
        ELSE Outcome(video_info, progress, elapsed, timeline_markers, "notnetflix",
                     prop_timeline_markers, library, "", "", polled, <<>>, <<>>)

\* the watched test with `>` for the threshold in seconds
Watched_elapsed_strict(tm, el, pr) ==
    \/ "watched_to_end_offset" \in DOMAIN tm /\ el > tm.watched_to_end_offset
    \/ "watched_to_end_offset" \notin DOMAIN tm /\ pr >= 90

\* the watched test with `>` for the percentage
Watched_progress_strict(tm, el, pr) ==
    \/ "watched_to_end_offset" \in DOMAIN tm /\ el >= tm.watched_to_end_offset
    \/ "watched_to_end_offset" \notin DOMAIN tm /\ pr > 90

\* the watched test of _on_playback_stopped
Watched(tm, el, pr) ==
    \/ "watched_to_end_offset" \in DOMAIN tm /\ el >= tm.watched_to_end_offset
    \/ "watched_to_end_offset" \notin DOMAIN tm /\ pr >= 90

\* a reset that leaves the flag as it is
StopCleanup_keeps_flag(lib, asked, writes) ==
    Outcome(None, 0, 0, <<>>, prop_netflix_play, EmptyBlob, lib, "", "", asked, writes, <<>>)

\* the last four assignments and the two setProperty calls of _on_playback_stopped
StopCleanup(lib, asked, writes) ==
    Outcome(None, 0, 0, <<>>, "stopped", EmptyBlob, lib, "", "", asked, writes, <<>>)

\* self.video_info.get('playcount', 0) + 1
NewPlaycount(info) == (IF "playcount" \in DOMAIN info THEN info.playcount ELSE 0) + 1

_on_playback_stopped(rSet) ==
    IF is_netflix_playback /\ ItemIdentified
    THEN IF Watched(timeline_markers, elapsed, progress)
         THEN IF video_info = None
              THEN Untouched("AttributeError", "video_info", <<>>)
              ELSE LET u == _update_item_details(video_info,
                                [playcount |-> NewPlaycount(video_info[1]),
                                 resume |-> [position |-> 0]],
                                rSet, library)
                   IN  IF u.raised # ""
                       THEN Outcome(video_info, progress, elapsed, timeline_markers,
                                    prop_netflix_play, prop_timeline_markers, library,
                                    u.raised, u.failed, <<SetDetails>>, u.writes, <<>>)
                       ELSE StopCleanup(u.lib, <<SetDetails>>, u.writes)
         ELSE StopCleanup(library, <<>>, <<>>)
    ELSE StopCleanup(library, <<>>, <<>>)

(***************************************************************************)
(* Inputs: what the service, the user's settings, the notification and the *)
(* initiating side of the addon can supply.                                *)
(***************************************************************************)
AudioPlayer == [playerid |-> 0, type |-> "audio"]
VideoPlayer == [playerid |-> 1, type |-> "video"]

PlayerAnswers == {ErrorResponse, Result(<<AudioPlayer>>), Result(<<AudioPlayer, VideoPlayer>>)}

\* the answers to the polls of a start: no video player for the first n calls,
\* then the same answer (an error, or a video player) to every later call
FinalAnswers == {ErrorResponse, Result(<<AudioPlayer, VideoPlayer>>)}

\* n: the final answer comes at once, at the last call the loop of _retry makes,
\* or later than the model looks
PollCounts == {0, MAX_TRIES - 2, MaxNoneAnswers}

PollAnswers(n, final) ==
    [k \in 1..(MaxNoneAnswers + 1) |-> IF k <= n THEN Result(<<AudioPlayer>>) ELSE final]

Time(h, m, s) == [hours |-> h, minutes |-> m, seconds |-> s]

\* the positions the player reports
Samples == { [percentage |-> 95, time |-> Time(0, 0, 30)],
             [percentage |-> 90, time |-> Time(0, 1, 40)],
             [percentage |-> 89, time |-> Time(0, 2, 5)] }

PropsAnswers == {ErrorResponse} \cup {Result(p) : p \in Samples}

SetAnswers == {ErrorResponse, Result("OK")}

Settings == [skip_credits : BOOLEAN, auto_skip_credits : BOOLEAN,
             skip_enabled_no_pause : BOOLEAN]

SettingsOff == [skip_credits |-> FALSE, auto_skip_credits |-> FALSE,
                skip_enabled_no_pause |-> FALSE]

\* the item of the Player.OnPlay notification (data.get('item', None))
Fallbacks == {None, Some([title |-> MyShowS02E05]), Some([type |-> "unknown"])}

\* the items Player.GetItem can report
PlayerItems(lib) ==
    { [type |-> "episode", id |-> 1, label |-> MyShowS02E05,
       playcount |-> lib[<<"episode", 1>>].playcount],
      [type |-> "movie", id |-> 1, label |-> Heat],
      [type |-> "unknown", label |-> MyShowS02E05],
      [type |-> "unknown", label |-> <<>>, title |-> Heat1995, year |-> 1995],
      [type |-> "unknown", label |-> <<>>] }

GetItemAnswers(lib) ==
    {ErrorResponse} \cup {Result([item |-> i]) : i \in PlayerItems(lib)}

WithPlaycount(listing, mediatype, lib) ==
    [k \in 1..Len(listing) |->
        listing[k] @@ [playcount |-> lib[<<mediatype, CandidateId(mediatype, listing[k])>>].playcount]]

RECURSIVE SelectYear(_, _)
SelectYear(listing, year) ==
    IF listing = <<>> THEN <<>>
    ELSE (IF Head(listing).year = year THEN <<Head(listing)>> ELSE <<>>)
         \o SelectYear(Tail(listing), year)

GetEpisodesAnswers(lib) ==
    {ErrorResponse, Result([episodes |-> WithPlaycount(LibraryEpisodes, "episode", lib)])}

MovieFilters == {None, Some(1995)}

\* the answers to VideoLibrary.GetMovies, one for each filter parameter
GetMoviesAnswers(lib) ==
    { [f \in MovieFilters |-> ErrorResponse],
      [f \in MovieFilters |->
          Result([movies |-> WithPlaycount(IF f = None THEN LibraryMovies
                                           ELSE SelectYear(LibraryMovies, f[1]),
                                           "movie", lib)])] }

Markers(start, end) == [start |-> start, end |-> end]

FullObject ==
    [end_credits_offset |-> Some(150000), watched_to_end_offset |-> Some(125),
     credit_markers |-> [credit |-> Markers(Some(125000), Some(160999)),
                         recap |-> Markers(Some(65500), Some(101999))]]

NoThresholdObject ==
    [end_credits_offset |-> None, watched_to_end_offset |-> None,
     credit_markers |-> [credit |-> Markers(Some(125000), Some(160999)),
                         recap |-> Markers(None, None)]]

\* dicts that unpickle but lack a key _grab_timeline_markers reads
WrongShapeObjects ==
    { DictDel(FullObject, "watched_to_end_offset"),
      DictSet(FullObject, "credit_markers", DictDel(FullObject.credit_markers, "recap")) }

Blobs == {EmptyBlob, GarbageBlob, Pickle(FullObject), Pickle(NoThresholdObject)}
         \cup {Pickle(o) : o \in WrongShapeObjects}

(***************************************************************************)
(* State machine.                                                          *)
(***************************************************************************)
Has(seq, x) == \E k \in 1..Len(seq) : seq[k] = x

NoSession == [triggers |-> [recap |-> 0, credit |-> 0], pcwrites |-> 0, item |-> None]

\* no function is called on its own while the monitor runs
NoCall == [fn |-> "none"]

\* the monitor after __init__, before any playback
Constructed ==
    /\ video_info = None
    /\ progress = 0
    /\ elapsed = 0
    /\ timeline_markers = <<>>
    /\ prop_netflix_play = ""
    /\ prop_timeline_markers = EmptyBlob
    /\ library = [i \in Items |-> [playcount |-> 0, resume |-> 0]]
    /\ playbacks = 0
    /\ last = [op |-> "none", raised |-> "", failed |-> "", writes |-> <<>>,
               skips |-> <<>>]
    /\ session = NoSession

Init == Constructed /\ fn_call = NoCall

\* the state a handler leaves, and the record of what it did
Apply(op, o) ==
    /\ video_info' = o.video_info
    /\ progress' = o.progress
    /\ elapsed' = o.elapsed
    /\ timeline_markers' = o.timeline_markers
    /\ prop_netflix_play' = o.prop_netflix_play
    /\ prop_timeline_markers' = o.prop_timeline_markers
    /\ library' = o.library
    /\ last' = [op |-> op, raised |-> o.raised, failed |-> o.failed,
                writes |-> o.writes, skips |-> o.skips]
    /\ UNCHANGED <<playbacks, fn_call>>

\* the initiating side of the addon stores the markers of the title it is about
\* to play and announces the playback
Initiate ==
    /\ playbacks < MaxPlaybacks
    /\ \E blob \in Blobs : prop_timeline_markers' = blob
    /\ prop_netflix_play' = PROP_PLAYBACK_INIT
    /\ playbacks' = playbacks + 1
    /\ last' = [op |-> "initiate", raised |-> "", failed |-> "", writes |-> <<>>,
                skips |-> <<>>]
    /\ UNCHANGED <<monitor, library, session, fn_call>>

StartDone(o) ==
    /\ Apply("start", o)
    /\ session' = IF o.raised = "" /\ o.prop_netflix_play = PROP_PLAYBACK_TRACKING
                  THEN [NoSession EXCEPT !.item = o.video_info]
                  ELSE session

\* onNotification with method Player.OnPlay; the notification's item and the
\* answers of the service are drawn for the calls the handler makes
OnPlay ==
    \E n \in PollCounts, final \in FinalAnswers :
        LET answers == PollAnswers(n, final)
            noMovies == [f \in MovieFilters |-> ErrorResponse]
            o1 == _on_playback_started(None, answers, ErrorResponse, ErrorResponse, noMovies)
        IN  IF ~Has(o1.asked, "Player.GetItem") THEN StartDone(o1)
            ELSE \E rGetItem \in GetItemAnswers(library) :
                LET o2 == _on_playback_started(None, answers, rGetItem, ErrorResponse, noMovies)
                IN  IF ~Has(o2.asked, "VideoLibrary.GetEpisodes") THEN StartDone(o2)
                    ELSE \E item \in Fallbacks, rGetEpisodes \in GetEpisodesAnswers(library) :
                        LET o3 == _on_playback_started(item, answers, rGetItem,
                                                       rGetEpisodes, noMovies)
                        IN  IF ~Has(o3.asked, "VideoLibrary.GetMovies") THEN StartDone(o3)
                            ELSE \E rGetMovies \in GetMoviesAnswers(library) :
                                StartDone(_on_playback_started(item, answers, rGetItem,
                                                               rGetEpisodes, rGetMovies))

Bump(n) == Min(n + 1, MaxCount)

TickDone(o) ==
    /\ Apply("tick", o)
    /\ session' = [session EXCEPT !.triggers =
                     [s \in {"recap", "credit"} |->
                        IF \E k \in 1..Len(o.skips) : o.skips[k].section = s
                        THEN Bump(@[s]) ELSE @[s]]]

\* the answers the service can give to Player.GetProperties after it has
\* answered Player.GetActivePlayers with rPlayers: a request that names no
\* player is answered with an error envelope
PropsAnswersAfter(rPlayers) ==
    IF "error" \in DOMAIN rPlayers \/ FirstVideoPlayer(rPlayers.result) # None
    THEN PropsAnswers ELSE {ErrorResponse}

\* the periodic tick of the service loop; the answers of the service and the
\* settings are drawn for the calls the handler makes and the settings it reads
OnTick ==
    LET o0 == on_playback_tick(ErrorResponse, ErrorResponse, SettingsOff, ErrorResponse)
    IN  IF o0.asked = <<>> THEN TickDone(o0)
        ELSE \E rPlayers \in PlayerAnswers :
            LET o1 == on_playback_tick(rPlayers, ErrorResponse, SettingsOff, ErrorResponse)
            IN  IF ~Has(o1.asked, "Player.GetProperties") THEN TickDone(o1)
                ELSE \E rProps \in PropsAnswersAfter(rPlayers), skip_credits \in BOOLEAN :
                    LET base == [SettingsOff EXCEPT !.skip_credits = skip_credits]
                        o2 == on_playback_tick(rPlayers, rProps, base, ErrorResponse)
                    IN  \E settings \in (IF o2.skips = <<>> THEN {base}
                                         ELSE {x \in Settings : x.skip_credits}),
                           rSet \in (IF Has(o2.asked, SetDetails) THEN SetAnswers
                                     ELSE {ErrorResponse}) :
                            TickDone(on_playback_tick(rPlayers, rProps, settings, rSet))

StopDone(o) ==
    /\ Apply("stop", o)
    /\ session' = [session EXCEPT !.pcwrites =
                     IF \E k \in 1..Len(o.writes) :
                            o.writes[k].ok /\ "playcount" \in DOMAIN o.writes[k].request.properties
                     THEN Bump(@) ELSE @]

\* onNotification with method Player.OnStop
OnStop == \E rSet \in SetAnswers : StopDone(_on_playback_stopped(rSet))

Next == Initiate \/ OnPlay \/ OnTick \/ OnStop

Spec == Init /\ [][Next]_vars

(***************************************************************************)
(* Single calls.  A second specification applies one function of the       *)
(* module to one input: fn_call holds the input from the start and the     *)
(* result once the call is done; the monitor stays as constructed.         *)
(***************************************************************************)
ToCall(fn, input) == [fn |-> fn, input |-> input, done |-> FALSE, output |-> <<>>]

Done(fn) == fn_call.fn = fn /\ fn_call.done

\* marker timestamps in milliseconds
MsValues == {0, 999, 1000, 1999, 60000, 65500, 90000}

\* a stored object that holds nothing but the credit section
CreditOnlyObject ==
    [credit_markers |-> [credit |-> Markers(Some(60000), Some(90000))]]

\* the objects handed to _grab_timeline_markers on its own
DecodeObjects ==
    {CreditOnlyObject} \cup
    { [end_credits_offset |-> None, watched_to_end_offset |-> None,
       credit_markers |-> [credit |-> Markers(Some(a), Some(b)), recap |-> r]] :
         a \in MsValues, b \in MsValues,
         r \in {Markers(None, None), Markers(Some(65500), Some(101999))} }

DecodeCalls == {ToCall("_grab_timeline_markers", Pickle(o)) : o \in DecodeObjects}

\* self._grab_timeline_markers() with the property holding fn_call.input
Decode ==
    /\ fn_call.fn = "_grab_timeline_markers" /\ ~fn_call.done
    /\ fn_call' = [fn_call EXCEPT !.done = TRUE,
                                  !.output = _grab_timeline_markers(fn_call.input)]
    /\ UNCHANGED <<monitor, prop_netflix_play, prop_timeline_markers, library,
                   playbacks, last, session>>

\* the responses to the successive Player.GetActivePlayers calls of one _retry
PollCalls ==
    {ToCall("_retry", answers) : answers \in [1..MAX_TRIES -> PlayerAnswers]}

\* _retry(_get_active_video_player, 5) with the responses fn_call.input
Poll ==
    /\ fn_call.fn = "_retry" /\ ~fn_call.done
    /\ fn_call' = [fn_call EXCEPT !.done = TRUE,
                                  !.output = _retry(fn_call.input, MAX_TRIES)]
    /\ UNCHANGED <<monitor, prop_netflix_play, prop_timeline_markers, library,
                   playbacks, last, session>>

\* items of Player.GetItem that carry no type and no id
GuessItems ==
    { <<>>,
      [label |-> <<>>],
      [label |-> MyShowS02E05],
      [label |-> <<>>, title |-> Heat1995, year |-> 1995],
      [label |-> Heat] }

\* the item of the notification: missing, with a title, without a title
GuessFallbacks ==
    Fallbacks \cup {Some([label |-> MyShowS02E05]), Some([title |-> Heat1995])}

OtherEpisode ==
    [episodeid |-> 2, tvshowid |-> 10, showtitle |-> MyShow, season |-> 2, episode |-> 4,
     playcount |-> 3]

EpisodeListings ==
    LET e == WithPlaycount(LibraryEpisodes, "episode",
                           [i \in Items |-> [playcount |-> 2, resume |-> 0]])
    IN  {<<>>, e, <<OtherEpisode>> \o e}

MovieListings ==
    {<<>>, WithPlaycount(LibraryMovies, "movie",
                         [i \in Items |-> [playcount |-> 1, resume |-> 0]])}

ResolveCalls ==
    { ToCall("_get_video_info",
             [item |-> i, fallback_data |-> f, episodes |-> e, movies |-> m]) :
        i \in GuessItems, f \in GuessFallbacks, e \in EpisodeListings, m \in MovieListings }

\* self._get_video_info(player_id, fallback_data) with the service reporting the
\* item and the listings of fn_call.input
Resolve ==
    /\ fn_call.fn = "_get_video_info" /\ ~fn_call.done
    /\ LET in == fn_call.input
       IN  fn_call' = [fn_call EXCEPT
               !.done = TRUE,
               !.output = _get_video_info(in.fallback_data,
                              Result([item |-> in.item]),
                              Result([episodes |-> in.episodes]),
                              [f \in MovieFilters |->
                                  Result([movies |-> IF f = None THEN in.movies
                                                     ELSE SelectYear(in.movies, f[1])])])]
    /\ UNCHANGED <<monitor, prop_netflix_play, prop_timeline_markers, library,
                   playbacks, last, session>>

InitCalls == Constructed /\ fn_call \in DecodeCalls \cup PollCalls \cup ResolveCalls

NextCalls == Decode \/ Poll \/ Resolve

SpecCalls == InitCalls /\ [][NextCalls]_vars

(***************************************************************************)
(* Properties.                                                             *)
(***************************************************************************)
Tracking == prop_netflix_play = "tracking"

\* C1: every call of _on_playback_stopped ends with the flag "stopped", the
\* marker blob cleared and the session reset (video_info None, progress 0,
\* elapsed 0, timeline_markers empty), also when the watched commit fails.
C1_StopAlwaysResets ==
    last.op = "stop" =>
        /\ prop_netflix_play = "stopped"
        /\ prop_timeline_markers = EmptyBlob
        /\ video_info = None
        /\ progress = 0
        /\ elapsed = 0
        /\ timeline_markers = <<>>

\* C2: within one session (from the start that loads the markers on), each of
\* the sections recap and credit triggers its skip at most once, however often
\* the elapsed time of the ticks enters and leaves [start, end).
C2_SkipAtMostOnce ==
    \A s \in {"recap", "credit"} : session.triggers[s] <= 1

\* C2 happens: both sections have triggered, and a later tick whose elapsed
\* time lies in the recap section again has triggered nothing.
C2_Witness ==
    /\ Tracking
    /\ session.triggers = [recap |-> 1, credit |-> 1]
    /\ last.op = "tick"
    /\ last.skips = <<>>
    /\ elapsed = 100
    /\ "end_credits_offset" \in DOMAIN timeline_markers
    /\ timeline_markers.credit_markers = <<>>

\* C3: in a session whose item resolution returned None, no tick and no stop
\* sends a Set<MediaType>Details request, nor gets as far as building one from
\* the missing item (which would raise TypeError or AttributeError).
C3_NoWriteWithoutItem ==
    session.item = None /\ last.op \in {"tick", "stop"} =>
        /\ last.writes = <<>>
        /\ last.raised \notin {"TypeError", "AttributeError"}

\* C3 happens: a session without an item was tracked, a tick of it triggered
\* the credit skip, and the session was stopped.
C3_Witness ==
    /\ session.item = None
    /\ session.triggers.credit = 1
    /\ last.op = "stop"
    /\ last.writes = <<>>
    /\ prop_netflix_play = "stopped"

\* C4: a stop that follows a stop never raises, and over the stops that follow
\* one tracked session the playcount is written at most once.
C4_StopTwice ==
    /\ last.op = "stop" => \A rSet \in SetAnswers : _on_playback_stopped(rSet).raised = ""
    /\ session.pcwrites <= 1

\* the watched commit of the item info: playcount + 1 and resume position 0
WatchedCommit(info) ==
    [method |-> <<"VideoLibrary.Set", Capitalize(info.dbtype), "Details">>,
     item |-> <<info.dbtype, info.dbid>>,
     properties |-> [playcount |-> info.playcount + 1, resume |-> [position |-> 0]]]

\* the stop handler sent the request, and nothing else; the library holds what
\* the request says when the service carried it out
SentOnly(request) ==
    /\ Len(last'.writes) = 1
    /\ last'.writes[1].request = request
    /\ IF last'.writes[1].ok
       THEN library' = [library EXCEPT ![request.item] =
                           [playcount |-> request.properties.playcount, resume |-> 0]]
       ELSE library' = library

SentNothing == last'.writes = <<>> /\ library' = library

\* C5: when the session's markers hold watched_to_end_offset, a tracked stop
\* sends the watched commit (playcount + 1, resume position 0) if and only if
\* elapsed >= watched_to_end_offset, whatever the progress percentage is; a stop
\* that does not commit writes nothing.
C5_ThresholdLaw ==
    [][ (/\ last'.op = "stop"
         /\ Tracking
         /\ video_info # None
         /\ "watched_to_end_offset" \in DOMAIN timeline_markers)
        => IF elapsed >= timeline_markers.watched_to_end_offset
           THEN SentOnly(WatchedCommit(video_info[1]))
           ELSE SentNothing ]_vars

\* C5 happens: a session with a threshold of 125 seconds is at 125 seconds and
\* 89 percent, and its stop has sent the commit, which the service answered
\* with an error.
C5_Witness ==
    /\ last.op = "stop"
    /\ Tracking
    /\ video_info # None
    /\ "watched_to_end_offset" \in DOMAIN timeline_markers
    /\ elapsed = timeline_markers.watched_to_end_offset
    /\ progress = 89
    /\ Len(last.writes) = 1
    /\ last.writes[1].request.properties = [playcount |-> video_info[1].playcount + 1,
                                            resume |-> [position |-> 0]]

\* C6: when the session's markers hold no watched_to_end_offset, a tracked stop
\* sends the watched commit (playcount + 1, resume position 0) if and only if
\* the last recorded progress percentage is >= 90, whatever elapsed is.
C6_DefaultLaw ==
    [][ (/\ last'.op = "stop"
         /\ Tracking
         /\ video_info # None
         /\ "watched_to_end_offset" \notin DOMAIN timeline_markers)
        => IF progress >= 90
           THEN SentOnly(WatchedCommit(video_info[1]))
           ELSE SentNothing ]_vars

\* C6 happens: a session without threshold is at 90 percent and its stop has
\* sent the commit, which the service answered with an error.
C6_Witness ==
    /\ last.op = "stop"
    /\ Tracking
    /\ video_info # None
    /\ "watched_to_end_offset" \notin DOMAIN timeline_markers
    /\ progress = 90
    /\ Len(last.writes) = 1
    /\ ~last.writes[1].ok
    /\ last.writes[1].request = WatchedCommit(video_info[1])

\* C7: an error envelope answered to any remote call of _on_playback_started,
\* on_playback_tick or _on_playback_stopped never leaves the handler as an
\* IOError: the handler returns normally.
C7_TransportErrorsCaught ==
    last.op \in {"start", "tick", "stop"} => last.raised # "IOError"

\* C8: a tick whose Player.GetProperties query fails leaves elapsed, progress,
\* the markers, the window properties and the library as they were, triggers
\* no skip and writes no resume position.
C8_FailedQueryNoOp ==
    [][ last'.op = "tick" /\ last'.failed = "Player.GetProperties"
        => /\ UNCHANGED <<monitor, prop_netflix_play, prop_timeline_markers, library>>
           /\ last'.skips = <<>>
           /\ last'.writes = <<>>
           /\ last'.raised = "" ]_vars

\* C8 happens: the query of a tick has failed in a session whose last
\* successful tick was at 125 seconds and 89 percent, inside the credit section.
C8_Witness ==
    /\ last.op = "tick"
    /\ last.failed = "Player.GetProperties"
    /\ Tracking
    /\ elapsed = 125
    /\ progress = 89
    /\ "credit" \in DOMAIN timeline_markers.credit_markers

\* the blobs whose object has every key _grab_timeline_markers reads
WellShaped == {Pickle(FullObject), Pickle(NoThresholdObject)}

\* C9: decoding the markers never fails a start: with an absent blob, a blob
\* that does not unpickle and an object of the wrong shape, the start completes
\* with the flag "tracking" and the markers are empty.
C9_DecodeNeverFailsStart ==
    last.op = "start" =>
        /\ last.failed # "_grab_timeline_markers"
        /\ (last.raised = "" /\ Tracking /\ prop_timeline_markers \notin WellShaped
               => timeline_markers = [credit_markers |-> <<>>])

\* C10 as stated: a tick with the flag not "tracking" or with video_info None
\* changes nothing, triggers no skip and writes nothing.
C10_UntrackedTickNoOp ==
    [][ last'.op = "tick" /\ (~Tracking \/ video_info = None)
        => /\ UNCHANGED <<elapsed, progress, timeline_markers>>
           /\ last'.skips = <<>>
           /\ last'.writes = <<>> ]_vars

\* C10, amended: a tick with the flag not "tracking" changes nothing, triggers
\* no skip and writes nothing; a tick with the flag "tracking" and video_info
\* None sends no Set<MediaType>Details request and leaves the library alone
\* (it does record elapsed and progress, and it may trigger a skip).
C10_TickByFlag ==
    [][ last'.op = "tick"
        => /\ ~Tracking
              => /\ UNCHANGED <<monitor, prop_netflix_play, prop_timeline_markers, library>>
                 /\ last'.skips = <<>>
                 /\ last'.writes = <<>>
                 /\ last'.raised = ""
           /\ Tracking /\ video_info = None
              => /\ last'.writes = <<>>
                 /\ UNCHANGED <<video_info, library>> ]_vars

\* C10 happens: a tick of a tracked session without item has recorded the
\* position and triggered the recap skip.
C10_Witness ==
    /\ last.op = "tick"
    /\ Tracking
    /\ video_info = None
    /\ elapsed = 100
    /\ progress = 90
    /\ Len(last.skips) = 1
    /\ last.skips[1].section = "recap"
    /\ last.writes = <<>>

\* sec is the whole number of seconds in ms milliseconds
IsFloorOf(sec, ms) == sec * 1000 <= ms /\ ms < (sec + 1) * 1000

\* C11: decoding turns the start and end of every section the stored object
\* holds from milliseconds into whole seconds, floor(ms / 1000); the object
\* {credit_markers: {credit: {start: 60000, end: 90000}}} decodes to
\* credit_markers = {credit: {start: 60, end: 90}}.
C11_MsToWholeSeconds ==
    Done("_grab_timeline_markers") =>
        LET obj == fn_call.input.obj
            out == fn_call.output
        IN  /\ out.raised = ""
            /\ \A s \in DOMAIN obj.credit_markers :
                  obj.credit_markers[s].start # None =>
                     /\ s \in DOMAIN out.tm.credit_markers
                     /\ IsFloorOf(out.tm.credit_markers[s].start, obj.credit_markers[s].start[1])
                     /\ IsFloorOf(out.tm.credit_markers[s].end, obj.credit_markers[s].end[1])
            /\ obj = CreditOnlyObject =>
                  out.tm.credit_markers = [credit |-> [start |-> 60, end |-> 90]]

\* the library entry the label "My Show S02E05" names
IsNamedEpisode(e) == e.showtitle = MyShow /\ e.season = 2 /\ e.episode = 5

\* the played item has no type, no id, none of the explicit episode fields and
\* no label of its own
Undescribed(item) ==
    /\ DOMAIN item \cap {"type", "id", "tvshowid", "showtitle", "season", "episode"} = {}
    /\ "label" \in DOMAIN item => item.label = <<>>

ForeignStart(answers) ==
    _on_playback_started(None, answers, ErrorResponse, ErrorResponse,
                         [f \in MovieFilters |-> ErrorResponse])

\* whenever the polls of a start return no player, or the flag is not "init",
\* the start sets the flag to "notnetflix", asks for no item, keeps video_info
\* and writes nothing
StartMarksForeign ==
    \A n \in PollCounts, final \in FinalAnswers :
        LET answers == PollAnswers(n, final)
            polled == _retry(answers, MAX_TRIES)
            o == ForeignStart(answers)
        IN  polled.raised = "" /\ (polled.val = None \/ prop_netflix_play # "init")
            => /\ o.raised = ""
               /\ o.prop_netflix_play = "notnetflix"
               /\ ~Has(o.asked, "Player.GetItem")
               /\ o.video_info = video_info
               /\ o.writes = <<>>
               /\ o.library = library

\* a tick or stop handled while the flag is not "tracking" writes nothing to
\* the library and triggers no skip
ForeignStaysQuiet ==
    prop_netflix_play # "tracking" /\ last'.op \in {"tick", "stop"}
    => /\ last'.writes = <<>>
       /\ last'.skips = <<>>
       /\ library' = library

\* C13: a start that gets no player from its polls, or finds the flag not
\* "init", sets the flag to "notnetflix", resolves no item and writes nothing;
\* the ticks and stops handled from then on, until a start tracks again, write
\* nothing to the library and trigger no skip, also with video_info and markers
\* of an earlier session still in memory.
C13_ForeignPlayback == []StartMarksForeign /\ [][ForeignStaysQuiet]_vars

\* C13 happens: a tracked session at 125 seconds, inside the credit section and
\* never stopped, was marked "notnetflix" by a later start, and a tick has
\* been handled since.
C13_Witness ==
    /\ prop_netflix_play = "notnetflix"
    /\ last.op = "tick"
    /\ video_info # None
    /\ elapsed = 125
    /\ "credit_markers" \in DOMAIN timeline_markers
    /\ "credit" \in DOMAIN timeline_markers.credit_markers
    /\ last.writes = <<>>
    /\ last.skips = <<>>

\* C14: the poll of _on_playback_started asks for the active video player up
\* to 5 times: it returns the first player found, having asked no further, and
\* it reports no player only after 5 calls that all found none.
C14_FiveBoundedPolls ==
    Done("_retry") /\ (\A k \in 1..5 : fn_call.input[k] # ErrorResponse) =>
        LET found == {k \in 1..5 : fn_call.input[k] = Result(<<AudioPlayer, VideoPlayer>>)}
            out == fn_call.output
        IN  /\ out.raised = ""
            /\ IF found # {}
               THEN /\ out.val = Some(VideoPlayer.playerid)
                    /\ out.calls = CHOOSE k \in found : \A j \in found : k <= j
               ELSE /\ out.val = None
                    /\ out.calls = 5

\* the key of the item being tracked in the library
Tracked == <<video_info[1].dbtype, video_info[1].dbid>>

\* the tick's query of the player answered: the handler got as far as the write
QueryAnswered == last.failed \notin {"Player.GetActivePlayers", "Player.GetProperties"}

\* C15 as stated: in a tracked session with an identified item, after a tick
\* whose query succeeded the library's resume position is that tick's elapsed.
C15_ResumeIsLatestElapsed ==
    Tracking /\ video_info # None /\ last.op = "tick" /\ QueryAnswered
    => library[Tracked].resume = elapsed

\* C15, amended: such a tick sends exactly one request, resume position = its
\* elapsed, for the tracked item; the library holds that position when the
\* service carries the request out and keeps the older one when it answers
\* with an error.  A tracked stop that sends no commit leaves the library alone.
C15_ResumeSentEachTick ==
    [][ /\ (last'.op = "tick" /\ Tracking /\ video_info # None /\ QueryAnswered')
           => /\ Len(last'.writes) = 1
              /\ last'.writes[1].request.item = Tracked
              /\ last'.writes[1].request.properties = [resume |-> [position |-> elapsed']]
              /\ IF last'.writes[1].ok
                 THEN library' = [library EXCEPT ![Tracked].resume = elapsed']
                 ELSE library' = library
        /\ (last'.op = "stop" /\ Tracking /\ video_info # None /\ last'.writes = <<>>)
           => library' = library ]_vars

\* C15 happens: after a tick at 125 seconds that triggered the credit skip, a
\* tick at 30 seconds has overwritten the resume position of the tracked item.
C15_Witness ==
    /\ Tracking
    /\ video_info # None
    /\ last.op = "tick"
    /\ session.triggers.credit = 1
    /\ elapsed = 30
    /\ Len(last.writes) = 1
    /\ last.writes[1].ok
    /\ library[Tracked].resume = 30

\* the calls of a skip that act on the player or open the prompt
Acts(calls) == SelectSeq(calls, LAMBDA c : c.op \in {"pause", "seekTime", "doModal"})

Timers(calls) == SelectSeq(calls, LAMBDA c : c.op = "AlarmClock")

DigitValue(c) == CHOOSE n \in 0..9 : Digit(n) = c

RECURSIVE Number(_)
Number(digits) ==
    IF digits = <<>> THEN 0
    ELSE 10 * Number(SubSeq(digits, 1, Len(digits) - 1)) + DigitValue(digits[Len(digits)])

\* the seconds a time "MM:SS" stands for
TimerSeconds(time) ==
    LET colon == CHOOSE k \in 1..Len(time) : time[k] = ":"
    IN  60 * Number(SubSeq(time, 1, colon - 1)) + Number(SubSeq(time, colon + 1, Len(time)))

SeekOnly(calls, m) == Acts(calls) = <<Call("seekTime", <<m.end>>)>> /\ Timers(calls) = <<>>

PauseSeekUnpause(calls, m) ==
    /\ Acts(calls) = <<Call("pause", <<>>), Call("seekTime", <<m.end>>), Call("pause", <<>>)>>
    /\ Timers(calls) = <<>>

Prompt(calls, m) ==
    /\ Acts(calls) = <<Call("doModal", <<m.end>>)>>
    /\ Len(Timers(calls)) = 1
    /\ TimerSeconds(Timers(calls)[1].args[1]) = m.end - m.start

\* for every section still in the markers of a tracked session, the skip that
\* each configuration runs; and no configuration with skip_credits off makes
\* a tick run any
SkipByConfiguration ==
    Tracking /\ "credit_markers" \in DOMAIN timeline_markers =>
        /\ \A s \in DOMAIN timeline_markers.credit_markers, settings \in Settings :
              LET m == timeline_markers.credit_markers[s]
                  calls == _skip(s, timeline_markers, settings)
              IN  IF settings.auto_skip_credits /\ settings.skip_enabled_no_pause
                  THEN SeekOnly(calls, m)
                  ELSE IF settings.auto_skip_credits
                  THEN PauseSeekUnpause(calls, m)
                  ELSE Prompt(calls, m)
        /\ \A rPlayers \in PlayerAnswers, rProps \in PropsAnswers, rSet \in SetAnswers,
              settings \in Settings :
              ~settings.skip_credits
              => on_playback_tick(rPlayers, rProps, settings, rSet).skips = <<>>

\* every skip a tick triggers is one of the three, for the section's markers
OneSkipPerTrigger ==
    last'.op = "tick" =>
        \A k \in 1..Len(last'.skips) :
            LET m == timeline_markers.credit_markers[last'.skips[k].section]
                calls == last'.skips[k].calls
            IN  \/ SeekOnly(calls, m)
                \/ PauseSeekUnpause(calls, m)
                \/ Prompt(calls, m)

\* C16: a triggered section runs exactly one of three skips, chosen by the
\* settings alone: (a) auto_skip_credits and skip_enabled_no_pause: one seek to
\* the section's end; (b) auto_skip_credits without skip_enabled_no_pause:
\* pause, seek to the end, unpause; (c) no auto_skip_credits: no seek, a modal
\* prompt closed by a timer of end - start seconds.  With skip_credits off no
\* skip runs.
C16_SkipModes == []SkipByConfiguration /\ [][OneSkipPerTrigger]_vars

\* C16 happens: a tick inside the credit section [125, 160) has paused, sought
\* to 160 and unpaused.
C16_Witness ==
    /\ last.op = "tick"
    /\ Len(last.skips) = 1
    /\ last.skips[1].section = "credit"
    /\ Acts(last.skips[1].calls) =
          <<Call("pause", <<>>), Call("seekTime", <<160>>), Call("pause", <<>>)>>
    /\ elapsed = 125

\* the dict d has nothing to compare under key k
Lacks(d, k) == k \notin DOMAIN d \/ d[k] = <<>>

\* C17: matching never raises on missing fields: when the played item has no
\* label (or title) and the notification's item is missing or has no title, the
\* title compared is the default '', and _get_video_info returns a record or
\* None without raising.
C17_MatchingNeverRaises ==
    Done("_get_video_info") =>
        LET in == fn_call.input
            untitled == in.fallback_data = None \/ Lacks(in.fallback_data[1], "title")
        IN  /\ fn_call.output.raised = ""
            /\ \A itemkey \in {"label", "title"} :
                  Lacks(in.item, itemkey) /\ untitled
                  => _get_safe_with_fallback(in.item, in.fallback_data, itemkey,
                                             "title", <<>>) = Some(<<>>)

\* C18: once the initiating side has written "init" and the marker blob, no
\* tick or stop handled before the start changes the flag or the blob, so the
\* start that follows finds both as written.
C18_InitSurvivesUntilStart ==
    [][ prop_netflix_play = "init" /\ last'.op \in {"tick", "stop"}
        => /\ prop_netflix_play' = "init"
           /\ prop_timeline_markers' = prop_timeline_markers ]_vars

\* C19: whenever the flag is "tracking", timeline_markers holds the mapping
\* credit_markers, so no tick with skip_credits on fails on a missing mapping.
C19_TrackingHasCreditMarkers ==
    /\ last.failed # "credit_markers"
    /\ Tracking =>
          /\ "credit_markers" \in DOMAIN timeline_markers
          /\ \A rProps \in PropsAnswers, settings \in {x \in Settings : x.skip_credits} :
                on_playback_tick(Result(<<VideoPlayer>>), rProps, settings,
                                 Result("OK")).raised # "KeyError"

\* C19 happens: a session started with a blob that does not unpickle is being
\* tracked with an empty mapping, and a tick at 125 seconds has been handled.
C19_Witness ==
    /\ Tracking
    /\ prop_timeline_markers = GarbageBlob
    /\ timeline_markers = [credit_markers |-> <<>>]
    /\ last.op = "tick"
    /\ last.raised = ""
    /\ elapsed = 125

\* the start completed and set the flag to "tracking"
StartedTracking == last'.op = "start" /\ last'.raised = "" /\ prop_netflix_play' = "tracking"

====
